---- MODULE Spec2Model ----
(***************************************************************************)
(* Parser-combinator engine of mrkaspa/parser.                             *)
(*                                                                         *)
(* Text is a sequence of UTF-8 bytes (a Rust &str / String).  A parser is  *)
(* a syntax tree of primitives and combinators; Parse applies it to an     *)
(* input exactly as the closures of parser_fun.rs (and the structs of      *)
(* parser_struct.rs) do.  The repetition loop of the parser under test is  *)
(* executed one iteration per step, so that a loop that never returns is a *)
(* behaviour of the model and not a divergent evaluation.                  *)
(***************************************************************************)
EXTENDS Integers, Sequences, FiniteSets, TLC

(* ---------------------------------------------------------------- bounds *)
\* longest input, in characters
MaxInputChars == 3
\* longest literal text, in characters
MaxLitChars == 1

(* ------------------------------------------------------------ characters *)
\* the characters texts are made of, as their UTF-8 encodings:
\* 'a', '-', '1', U+00E9 (two bytes, alphabetic), U+3042 (three bytes,
\* alphabetic), U+1F601 (four bytes)
Chars ==
    { <<97>>, <<45>>, <<49>>, <<195, 169>>, <<227, 129, 130>>, <<240, 159, 152, 129>> }

\* every text of at most n characters
RECURSIVE TextsUpTo(_)
TextsUpTo(n) ==
    IF n = 0 THEN { <<>> }
    ELSE { <<>> } \cup { c \o s : c \in Chars, s \in TextsUpTo(n - 1) }

Inputs == TextsUpTo(MaxInputChars)
LitTexts == TextsUpTo(MaxLitChars)

(* ------------------------------------------------------- str operations *)
\* char::len_utf8 read off the lead byte
len_utf8(b) ==
    IF b < 128 THEN 1 ELSE IF b < 224 THEN 2 ELSE IF b < 240 THEN 3 ELSE 4

\* a UTF-8 continuation byte (10xxxxxx)
IsContinuation(b) == b >= 128 /\ b < 192

\* str::is_char_boundary
is_char_boundary(s, n) ==
    \/ n = 0
    \/ n = Len(s)
    \/ n < Len(s) /\ ~IsContinuation(s[n + 1])

\* str::get(0..n): the first n bytes, or None
None == [some |-> FALSE]
Some(v) == [some |-> TRUE, v |-> v]
get_prefix(s, n) ==
    IF n <= Len(s) /\ is_char_boundary(s, n) THEN Some(SubSeq(s, 1, n)) ELSE None

\* the bytes of s from offset n on
slice_from(s, n) == SubSeq(s, n + 1, Len(s))

\* whether &s[n..] is a slice; otherwise the index expression panics
can_slice_from(s, n) == n <= Len(s) /\ is_char_boundary(s, n)

\* the code point encoded by the bytes of one character
CodePoint(c) ==
    IF Len(c) = 1 THEN c[1]
    ELSE IF Len(c) = 2 THEN (c[1] - 192) * 64 + (c[2] - 128)
    ELSE IF Len(c) = 3 THEN (c[1] - 224) * 4096 + (c[2] - 128) * 64 + (c[3] - 128)
    ELSE (c[1] - 240) * 262144 + (c[2] - 128) * 4096 + (c[3] - 128) * 64 + (c[4] - 128)

\* input.chars().next(): the first character (its bytes), or None
chars_next(s) ==
    IF s = <<>> THEN None ELSE Some(SubSeq(s, 1, len_utf8(s[1])))

\* the table char::is_alphabetic searches: whether the code point cp, above
\* U+007F, lies in one of the ranges of code points that have the Unicode
\* property Alphabetic (the ranges are in ascending order, and the search
\* halves them)
Alphabetic(cp) ==
    IF cp < 43762
    THEN
      IF cp < 3789
      THEN
        IF cp < 2707
        THEN
          IF cp < 2074
          THEN
            IF cp < 1369
            THEN
              IF cp < 867
              THEN
                IF cp < 248
                THEN
                  \/ cp = 170
                  \/ cp = 181
                  \/ cp = 186
                  \/ cp >= 192 /\ cp <= 214
                  \/ cp >= 216 /\ cp <= 246
                ELSE
                  \/ cp >= 248 /\ cp <= 705
                  \/ cp >= 710 /\ cp <= 721
                  \/ cp >= 736 /\ cp <= 740
                  \/ cp = 748
                  \/ cp = 750
                  \/ cp = 837
              ELSE
                IF cp < 908
                THEN
                  \/ cp >= 867 /\ cp <= 884
                  \/ cp >= 886 /\ cp <= 887
                  \/ cp >= 890 /\ cp <= 893
                  \/ cp = 895
                  \/ cp = 902
                  \/ cp >= 904 /\ cp <= 906
                ELSE
                  \/ cp = 908
                  \/ cp >= 910 /\ cp <= 929
                  \/ cp >= 931 /\ cp <= 1013
                  \/ cp >= 1015 /\ cp <= 1153
                  \/ cp >= 1162 /\ cp <= 1327
                  \/ cp >= 1329 /\ cp <= 1366
            ELSE
              IF cp < 1646
              THEN
                IF cp < 1479
                THEN
                  \/ cp = 1369
                  \/ cp >= 1376 /\ cp <= 1416
                  \/ cp >= 1456 /\ cp <= 1469
                  \/ cp = 1471
                  \/ cp >= 1473 /\ cp <= 1474
                  \/ cp >= 1476 /\ cp <= 1477
                ELSE
                  \/ cp = 1479
                  \/ cp >= 1488 /\ cp <= 1514
                  \/ cp >= 1519 /\ cp <= 1522
                  \/ cp >= 1552 /\ cp <= 1562
                  \/ cp >= 1568 /\ cp <= 1623
                  \/ cp >= 1625 /\ cp <= 1631
              ELSE
                IF cp < 1808
                THEN
                  \/ cp >= 1646 /\ cp <= 1747
                  \/ cp >= 1749 /\ cp <= 1756
                  \/ cp >= 1761 /\ cp <= 1768
                  \/ cp >= 1773 /\ cp <= 1775
                  \/ cp >= 1786 /\ cp <= 1788
                  \/ cp = 1791
                ELSE
                  \/ cp >= 1808 /\ cp <= 1855
                  \/ cp >= 1869 /\ cp <= 1969
                  \/ cp >= 1994 /\ cp <= 2026
                  \/ cp >= 2036 /\ cp <= 2037
                  \/ cp = 2042
                  \/ cp >= 2048 /\ cp <= 2071
          ELSE
            IF cp < 2510
            THEN
              IF cp < 2382
              THEN
                IF cp < 2199
                THEN
                  \/ cp >= 2074 /\ cp <= 2092
                  \/ cp >= 2112 /\ cp <= 2136
                  \/ cp >= 2144 /\ cp <= 2154
                  \/ cp >= 2160 /\ cp <= 2183
                  \/ cp >= 2185 /\ cp <= 2191
                ELSE
                  \/ cp = 2199
                  \/ cp >= 2208 /\ cp <= 2249
                  \/ cp >= 2260 /\ cp <= 2271
                  \/ cp >= 2275 /\ cp <= 2281
                  \/ cp >= 2288 /\ cp <= 2363
                  \/ cp >= 2365 /\ cp <= 2380
              ELSE
                IF cp < 2474
                THEN
                  \/ cp >= 2382 /\ cp <= 2384
                  \/ cp >= 2389 /\ cp <= 2403
                  \/ cp >= 2417 /\ cp <= 2435
                  \/ cp >= 2437 /\ cp <= 2444
                  \/ cp >= 2447 /\ cp <= 2448
                  \/ cp >= 2451 /\ cp <= 2472
                ELSE
                  \/ cp >= 2474 /\ cp <= 2480
                  \/ cp = 2482
                  \/ cp >= 2486 /\ cp <= 2489
                  \/ cp >= 2493 /\ cp <= 2500
                  \/ cp >= 2503 /\ cp <= 2504
                  \/ cp >= 2507 /\ cp <= 2508
            ELSE
              IF cp < 2613
              THEN
                IF cp < 2561
                THEN
                  \/ cp = 2510
                  \/ cp = 2519
                  \/ cp >= 2524 /\ cp <= 2525
                  \/ cp >= 2527 /\ cp <= 2531
                  \/ cp >= 2544 /\ cp <= 2545
                  \/ cp = 2556
                ELSE
                  \/ cp >= 2561 /\ cp <= 2563
                  \/ cp >= 2565 /\ cp <= 2570
                  \/ cp >= 2575 /\ cp <= 2576
                  \/ cp >= 2579 /\ cp <= 2600
                  \/ cp >= 2602 /\ cp <= 2608
                  \/ cp >= 2610 /\ cp <= 2611
              ELSE
                IF cp < 2649
                THEN
                  \/ cp >= 2613 /\ cp <= 2614
                  \/ cp >= 2616 /\ cp <= 2617
                  \/ cp >= 2622 /\ cp <= 2626
                  \/ cp >= 2631 /\ cp <= 2632
                  \/ cp >= 2635 /\ cp <= 2636
                  \/ cp = 2641
                ELSE
                  \/ cp >= 2649 /\ cp <= 2652
                  \/ cp = 2654
                  \/ cp >= 2672 /\ cp <= 2677
                  \/ cp >= 2689 /\ cp <= 2691
                  \/ cp >= 2693 /\ cp <= 2701
                  \/ cp >= 2703 /\ cp <= 2705
        ELSE
          IF cp < 3160
          THEN
            IF cp < 2929
            THEN
              IF cp < 2821
              THEN
                IF cp < 2759
                THEN
                  \/ cp >= 2707 /\ cp <= 2728
                  \/ cp >= 2730 /\ cp <= 2736
                  \/ cp >= 2738 /\ cp <= 2739
                  \/ cp >= 2741 /\ cp <= 2745
                  \/ cp >= 2749 /\ cp <= 2757
                ELSE
                  \/ cp >= 2759 /\ cp <= 2761
                  \/ cp >= 2763 /\ cp <= 2764
                  \/ cp = 2768
                  \/ cp >= 2784 /\ cp <= 2787
                  \/ cp >= 2809 /\ cp <= 2812
                  \/ cp >= 2817 /\ cp <= 2819
              ELSE
                IF cp < 2877
                THEN
                  \/ cp >= 2821 /\ cp <= 2828
                  \/ cp >= 2831 /\ cp <= 2832
                  \/ cp >= 2835 /\ cp <= 2856
                  \/ cp >= 2858 /\ cp <= 2864
                  \/ cp >= 2866 /\ cp <= 2867
                  \/ cp >= 2869 /\ cp <= 2873
                ELSE
                  \/ cp >= 2877 /\ cp <= 2884
                  \/ cp >= 2887 /\ cp <= 2888
                  \/ cp >= 2891 /\ cp <= 2892
                  \/ cp >= 2902 /\ cp <= 2903
                  \/ cp >= 2908 /\ cp <= 2909
                  \/ cp >= 2911 /\ cp <= 2915
            ELSE
              IF cp < 3014
              THEN
                IF cp < 2972
                THEN
                  \/ cp = 2929
                  \/ cp >= 2946 /\ cp <= 2947
                  \/ cp >= 2949 /\ cp <= 2954
                  \/ cp >= 2958 /\ cp <= 2960
                  \/ cp >= 2962 /\ cp <= 2965
                  \/ cp >= 2969 /\ cp <= 2970
                ELSE
                  \/ cp = 2972
                  \/ cp >= 2974 /\ cp <= 2975
                  \/ cp >= 2979 /\ cp <= 2980
                  \/ cp >= 2984 /\ cp <= 2986
                  \/ cp >= 2990 /\ cp <= 3001
                  \/ cp >= 3006 /\ cp <= 3010
              ELSE
                IF cp < 3090
                THEN
                  \/ cp >= 3014 /\ cp <= 3016
                  \/ cp >= 3018 /\ cp <= 3020
                  \/ cp = 3024
                  \/ cp = 3031
                  \/ cp >= 3072 /\ cp <= 3084
                  \/ cp >= 3086 /\ cp <= 3088
                ELSE
                  \/ cp >= 3090 /\ cp <= 3112
                  \/ cp >= 3114 /\ cp <= 3129
                  \/ cp >= 3133 /\ cp <= 3140
                  \/ cp >= 3142 /\ cp <= 3144
                  \/ cp >= 3146 /\ cp <= 3148
                  \/ cp >= 3157 /\ cp <= 3158
          ELSE
            IF cp < 3423
            THEN
              IF cp < 3285
              THEN
                IF cp < 3218
                THEN
                  \/ cp >= 3160 /\ cp <= 3162
                  \/ cp >= 3164 /\ cp <= 3165
                  \/ cp >= 3168 /\ cp <= 3171
                  \/ cp >= 3200 /\ cp <= 3203
                  \/ cp >= 3205 /\ cp <= 3212
                  \/ cp >= 3214 /\ cp <= 3216
                ELSE
                  \/ cp >= 3218 /\ cp <= 3240
                  \/ cp >= 3242 /\ cp <= 3251
                  \/ cp >= 3253 /\ cp <= 3257
                  \/ cp >= 3261 /\ cp <= 3268
                  \/ cp >= 3270 /\ cp <= 3272
                  \/ cp >= 3274 /\ cp <= 3276
              ELSE
                IF cp < 3346
                THEN
                  \/ cp >= 3285 /\ cp <= 3286
                  \/ cp >= 3292 /\ cp <= 3294
                  \/ cp >= 3296 /\ cp <= 3299
                  \/ cp >= 3313 /\ cp <= 3315
                  \/ cp >= 3328 /\ cp <= 3340
                  \/ cp >= 3342 /\ cp <= 3344
                ELSE
                  \/ cp >= 3346 /\ cp <= 3386
                  \/ cp >= 3389 /\ cp <= 3396
                  \/ cp >= 3398 /\ cp <= 3400
                  \/ cp >= 3402 /\ cp <= 3404
                  \/ cp = 3406
                  \/ cp >= 3412 /\ cp <= 3415
            ELSE
              IF cp < 3585
              THEN
                IF cp < 3517
                THEN
                  \/ cp >= 3423 /\ cp <= 3427
                  \/ cp >= 3450 /\ cp <= 3455
                  \/ cp >= 3457 /\ cp <= 3459
                  \/ cp >= 3461 /\ cp <= 3478
                  \/ cp >= 3482 /\ cp <= 3505
                  \/ cp >= 3507 /\ cp <= 3515
                ELSE
                  \/ cp = 3517
                  \/ cp >= 3520 /\ cp <= 3526
                  \/ cp >= 3535 /\ cp <= 3540
                  \/ cp = 3542
                  \/ cp >= 3544 /\ cp <= 3551
                  \/ cp >= 3570 /\ cp <= 3571
              ELSE
                IF cp < 3724
                THEN
                  \/ cp >= 3585 /\ cp <= 3642
                  \/ cp >= 3648 /\ cp <= 3654
                  \/ cp = 3661
                  \/ cp >= 3713 /\ cp <= 3714
                  \/ cp = 3716
                  \/ cp >= 3718 /\ cp <= 3722
                ELSE
                  \/ cp >= 3724 /\ cp <= 3747
                  \/ cp = 3749
                  \/ cp >= 3751 /\ cp <= 3769
                  \/ cp >= 3771 /\ cp <= 3773
                  \/ cp >= 3776 /\ cp <= 3780
                  \/ cp = 3782
      ELSE
        IF cp < 8064
        THEN
          IF cp < 6016
          THEN
            IF cp < 4746
            THEN
              IF cp < 4176
              THEN
                IF cp < 3953
                THEN
                  \/ cp = 3789
                  \/ cp >= 3804 /\ cp <= 3807
                  \/ cp = 3840
                  \/ cp >= 3904 /\ cp <= 3911
                  \/ cp >= 3913 /\ cp <= 3948
                ELSE
                  \/ cp >= 3953 /\ cp <= 3971
                  \/ cp >= 3976 /\ cp <= 3991
                  \/ cp >= 3993 /\ cp <= 4028
                  \/ cp >= 4096 /\ cp <= 4150
                  \/ cp = 4152
                  \/ cp >= 4155 /\ cp <= 4159
              ELSE
                IF cp < 4348
                THEN
                  \/ cp >= 4176 /\ cp <= 4239
                  \/ cp >= 4250 /\ cp <= 4253
                  \/ cp >= 4256 /\ cp <= 4293
                  \/ cp = 4295
                  \/ cp = 4301
                  \/ cp >= 4304 /\ cp <= 4346
                ELSE
                  \/ cp >= 4348 /\ cp <= 4680
                  \/ cp >= 4682 /\ cp <= 4685
                  \/ cp >= 4688 /\ cp <= 4694
                  \/ cp = 4696
                  \/ cp >= 4698 /\ cp <= 4701
                  \/ cp >= 4704 /\ cp <= 4744
            ELSE
              IF cp < 5112
              THEN
                IF cp < 4808
                THEN
                  \/ cp >= 4746 /\ cp <= 4749
                  \/ cp >= 4752 /\ cp <= 4784
                  \/ cp >= 4786 /\ cp <= 4789
                  \/ cp >= 4792 /\ cp <= 4798
                  \/ cp = 4800
                  \/ cp >= 4802 /\ cp <= 4805
                ELSE
                  \/ cp >= 4808 /\ cp <= 4822
                  \/ cp >= 4824 /\ cp <= 4880
                  \/ cp >= 4882 /\ cp <= 4885
                  \/ cp >= 4888 /\ cp <= 4954
                  \/ cp >= 4992 /\ cp <= 5007
                  \/ cp >= 5024 /\ cp <= 5109
              ELSE
                IF cp < 5888
                THEN
                  \/ cp >= 5112 /\ cp <= 5117
                  \/ cp >= 5121 /\ cp <= 5740
                  \/ cp >= 5743 /\ cp <= 5759
                  \/ cp >= 5761 /\ cp <= 5786
                  \/ cp >= 5792 /\ cp <= 5866
                  \/ cp >= 5870 /\ cp <= 5880
                ELSE
                  \/ cp >= 5888 /\ cp <= 5907
                  \/ cp >= 5919 /\ cp <= 5939
                  \/ cp >= 5952 /\ cp <= 5971
                  \/ cp >= 5984 /\ cp <= 5996
                  \/ cp >= 5998 /\ cp <= 6000
                  \/ cp >= 6002 /\ cp <= 6003
          ELSE
            IF cp < 7084
            THEN
              IF cp < 6528
              THEN
                IF cp < 6320
                THEN
                  \/ cp >= 6016 /\ cp <= 6067
                  \/ cp >= 6070 /\ cp <= 6088
                  \/ cp = 6103
                  \/ cp = 6108
                  \/ cp >= 6176 /\ cp <= 6264
                  \/ cp >= 6272 /\ cp <= 6314
                ELSE
                  \/ cp >= 6320 /\ cp <= 6389
                  \/ cp >= 6400 /\ cp <= 6430
                  \/ cp >= 6432 /\ cp <= 6443
                  \/ cp >= 6448 /\ cp <= 6456
                  \/ cp >= 6480 /\ cp <= 6509
                  \/ cp >= 6512 /\ cp <= 6516
              ELSE
                IF cp < 6847
                THEN
                  \/ cp >= 6528 /\ cp <= 6571
                  \/ cp >= 6576 /\ cp <= 6601
                  \/ cp >= 6656 /\ cp <= 6683
                  \/ cp >= 6688 /\ cp <= 6750
                  \/ cp >= 6753 /\ cp <= 6772
                  \/ cp = 6823
                ELSE
                  \/ cp >= 6847 /\ cp <= 6848
                  \/ cp >= 6860 /\ cp <= 6862
                  \/ cp >= 6912 /\ cp <= 6963
                  \/ cp >= 6965 /\ cp <= 6979
                  \/ cp >= 6981 /\ cp <= 6988
                  \/ cp >= 7040 /\ cp <= 7081
            ELSE
              IF cp < 7418
              THEN
                IF cp < 7296
                THEN
                  \/ cp >= 7084 /\ cp <= 7087
                  \/ cp >= 7098 /\ cp <= 7141
                  \/ cp >= 7143 /\ cp <= 7153
                  \/ cp >= 7168 /\ cp <= 7222
                  \/ cp >= 7245 /\ cp <= 7247
                  \/ cp >= 7258 /\ cp <= 7293
                ELSE
                  \/ cp >= 7296 /\ cp <= 7306
                  \/ cp >= 7312 /\ cp <= 7354
                  \/ cp >= 7357 /\ cp <= 7359
                  \/ cp >= 7401 /\ cp <= 7404
                  \/ cp >= 7406 /\ cp <= 7411
                  \/ cp >= 7413 /\ cp <= 7414
              ELSE
                IF cp < 8008
                THEN
                  \/ cp = 7418
                  \/ cp >= 7424 /\ cp <= 7615
                  \/ cp >= 7635 /\ cp <= 7668
                  \/ cp >= 7680 /\ cp <= 7957
                  \/ cp >= 7960 /\ cp <= 7965
                  \/ cp >= 7968 /\ cp <= 8005
                ELSE
                  \/ cp >= 8008 /\ cp <= 8013
                  \/ cp >= 8016 /\ cp <= 8023
                  \/ cp = 8025
                  \/ cp = 8027
                  \/ cp = 8029
                  \/ cp >= 8031 /\ cp <= 8061
        ELSE
          IF cp < 12293
          THEN
            IF cp < 8508
            THEN
              IF cp < 8319
              THEN
                IF cp < 8144
                THEN
                  \/ cp >= 8064 /\ cp <= 8116
                  \/ cp >= 8118 /\ cp <= 8124
                  \/ cp = 8126
                  \/ cp >= 8130 /\ cp <= 8132
                  \/ cp >= 8134 /\ cp <= 8140
                ELSE
                  \/ cp >= 8144 /\ cp <= 8147
                  \/ cp >= 8150 /\ cp <= 8155
                  \/ cp >= 8160 /\ cp <= 8172
                  \/ cp >= 8178 /\ cp <= 8180
                  \/ cp >= 8182 /\ cp <= 8188
                  \/ cp = 8305
              ELSE
                IF cp < 8473
                THEN
                  \/ cp = 8319
                  \/ cp >= 8336 /\ cp <= 8348
                  \/ cp = 8450
                  \/ cp = 8455
                  \/ cp >= 8458 /\ cp <= 8467
                  \/ cp = 8469
                ELSE
                  \/ cp >= 8473 /\ cp <= 8477
                  \/ cp = 8484
                  \/ cp = 8486
                  \/ cp = 8488
                  \/ cp >= 8490 /\ cp <= 8493
                  \/ cp >= 8495 /\ cp <= 8505
            ELSE
              IF cp < 11631
              THEN
                IF cp < 11499
                THEN
                  \/ cp >= 8508 /\ cp <= 8511
                  \/ cp >= 8517 /\ cp <= 8521
                  \/ cp = 8526
                  \/ cp >= 8544 /\ cp <= 8584
                  \/ cp >= 9398 /\ cp <= 9449
                  \/ cp >= 11264 /\ cp <= 11492
                ELSE
                  \/ cp >= 11499 /\ cp <= 11502
                  \/ cp >= 11506 /\ cp <= 11507
                  \/ cp >= 11520 /\ cp <= 11557
                  \/ cp = 11559
                  \/ cp = 11565
                  \/ cp >= 11568 /\ cp <= 11623
              ELSE
                IF cp < 11712
                THEN
                  \/ cp = 11631
                  \/ cp >= 11648 /\ cp <= 11670
                  \/ cp >= 11680 /\ cp <= 11686
                  \/ cp >= 11688 /\ cp <= 11694
                  \/ cp >= 11696 /\ cp <= 11702
                  \/ cp >= 11704 /\ cp <= 11710
                ELSE
                  \/ cp >= 11712 /\ cp <= 11718
                  \/ cp >= 11720 /\ cp <= 11726
                  \/ cp >= 11728 /\ cp <= 11734
                  \/ cp >= 11736 /\ cp <= 11742
                  \/ cp >= 11744 /\ cp <= 11775
                  \/ cp = 11823
          ELSE
            IF cp < 42993
            THEN
              IF cp < 13312
              THEN
                IF cp < 12449
                THEN
                  \/ cp >= 12293 /\ cp <= 12295
                  \/ cp >= 12321 /\ cp <= 12329
                  \/ cp >= 12337 /\ cp <= 12341
                  \/ cp >= 12344 /\ cp <= 12348
                  \/ cp >= 12353 /\ cp <= 12438
                  \/ cp >= 12445 /\ cp <= 12447
                ELSE
                  \/ cp >= 12449 /\ cp <= 12538
                  \/ cp >= 12540 /\ cp <= 12543
                  \/ cp >= 12549 /\ cp <= 12591
                  \/ cp >= 12593 /\ cp <= 12686
                  \/ cp >= 12704 /\ cp <= 12735
                  \/ cp >= 12784 /\ cp <= 12799
              ELSE
                IF cp < 42560
                THEN
                  \/ cp >= 13312 /\ cp <= 19903
                  \/ cp >= 19968 /\ cp <= 42124
                  \/ cp >= 42192 /\ cp <= 42237
                  \/ cp >= 42240 /\ cp <= 42508
                  \/ cp >= 42512 /\ cp <= 42527
                  \/ cp >= 42538 /\ cp <= 42539
                ELSE
                  \/ cp >= 42560 /\ cp <= 42606
                  \/ cp >= 42612 /\ cp <= 42619
                  \/ cp >= 42623 /\ cp <= 42735
                  \/ cp >= 42775 /\ cp <= 42783
                  \/ cp >= 42786 /\ cp <= 42888
                  \/ cp >= 42891 /\ cp <= 42972
            ELSE
              IF cp < 43444
              THEN
                IF cp < 43259
                THEN
                  \/ cp >= 42993 /\ cp <= 43013
                  \/ cp >= 43015 /\ cp <= 43047
                  \/ cp >= 43072 /\ cp <= 43123
                  \/ cp >= 43136 /\ cp <= 43203
                  \/ cp = 43205
                  \/ cp >= 43250 /\ cp <= 43255
                ELSE
                  \/ cp = 43259
                  \/ cp >= 43261 /\ cp <= 43263
                  \/ cp >= 43274 /\ cp <= 43306
                  \/ cp >= 43312 /\ cp <= 43346
                  \/ cp >= 43360 /\ cp <= 43388
                  \/ cp >= 43392 /\ cp <= 43442
              ELSE
                IF cp < 43616
                THEN
                  \/ cp >= 43444 /\ cp <= 43455
                  \/ cp = 43471
                  \/ cp >= 43488 /\ cp <= 43503
                  \/ cp >= 43514 /\ cp <= 43518
                  \/ cp >= 43520 /\ cp <= 43574
                  \/ cp >= 43584 /\ cp <= 43597
                ELSE
                  \/ cp >= 43616 /\ cp <= 43638
                  \/ cp >= 43642 /\ cp <= 43710
                  \/ cp = 43712
                  \/ cp = 43714
                  \/ cp >= 43739 /\ cp <= 43741
                  \/ cp >= 43744 /\ cp <= 43759
    ELSE
      IF cp < 71957
      THEN
        IF cp < 68288
        THEN
          IF cp < 66349
          THEN
            IF cp < 64467
            THEN
              IF cp < 55243
              THEN
                IF cp < 43816
                THEN
                  \/ cp >= 43762 /\ cp <= 43765
                  \/ cp >= 43777 /\ cp <= 43782
                  \/ cp >= 43785 /\ cp <= 43790
                  \/ cp >= 43793 /\ cp <= 43798
                  \/ cp >= 43808 /\ cp <= 43814
                ELSE
                  \/ cp >= 43816 /\ cp <= 43822
                  \/ cp >= 43824 /\ cp <= 43866
                  \/ cp >= 43868 /\ cp <= 43881
                  \/ cp >= 43888 /\ cp <= 44010
                  \/ cp >= 44032 /\ cp <= 55203
                  \/ cp >= 55216 /\ cp <= 55238
              ELSE
                IF cp < 64298
                THEN
                  \/ cp >= 55243 /\ cp <= 55291
                  \/ cp >= 63744 /\ cp <= 64109
                  \/ cp >= 64112 /\ cp <= 64217
                  \/ cp >= 64256 /\ cp <= 64262
                  \/ cp >= 64275 /\ cp <= 64279
                  \/ cp >= 64285 /\ cp <= 64296
                ELSE
                  \/ cp >= 64298 /\ cp <= 64310
                  \/ cp >= 64312 /\ cp <= 64316
                  \/ cp = 64318
                  \/ cp >= 64320 /\ cp <= 64321
                  \/ cp >= 64323 /\ cp <= 64324
                  \/ cp >= 64326 /\ cp <= 64433
            ELSE
              IF cp < 65498
              THEN
                IF cp < 65313
                THEN
                  \/ cp >= 64467 /\ cp <= 64829
                  \/ cp >= 64848 /\ cp <= 64911
                  \/ cp >= 64914 /\ cp <= 64967
                  \/ cp >= 65008 /\ cp <= 65019
                  \/ cp >= 65136 /\ cp <= 65140
                  \/ cp >= 65142 /\ cp <= 65276
                ELSE
                  \/ cp >= 65313 /\ cp <= 65338
                  \/ cp >= 65345 /\ cp <= 65370
                  \/ cp >= 65382 /\ cp <= 65470
                  \/ cp >= 65474 /\ cp <= 65479
                  \/ cp >= 65482 /\ cp <= 65487
                  \/ cp >= 65490 /\ cp <= 65495
              ELSE
                IF cp < 65616
                THEN
                  \/ cp >= 65498 /\ cp <= 65500
                  \/ cp >= 65536 /\ cp <= 65547
                  \/ cp >= 65549 /\ cp <= 65574
                  \/ cp >= 65576 /\ cp <= 65594
                  \/ cp >= 65596 /\ cp <= 65597
                  \/ cp >= 65599 /\ cp <= 65613
                ELSE
                  \/ cp >= 65616 /\ cp <= 65629
                  \/ cp >= 65664 /\ cp <= 65786
                  \/ cp >= 65856 /\ cp <= 65908
                  \/ cp >= 66176 /\ cp <= 66204
                  \/ cp >= 66208 /\ cp <= 66256
                  \/ cp >= 66304 /\ cp <= 66335
          ELSE
            IF cp < 67463
            THEN
              IF cp < 66940
              THEN
                IF cp < 66560
                THEN
                  \/ cp >= 66349 /\ cp <= 66378
                  \/ cp >= 66384 /\ cp <= 66426
                  \/ cp >= 66432 /\ cp <= 66461
                  \/ cp >= 66464 /\ cp <= 66499
                  \/ cp >= 66504 /\ cp <= 66511
                  \/ cp >= 66513 /\ cp <= 66517
                ELSE
                  \/ cp >= 66560 /\ cp <= 66717
                  \/ cp >= 66736 /\ cp <= 66771
                  \/ cp >= 66776 /\ cp <= 66811
                  \/ cp >= 66816 /\ cp <= 66855
                  \/ cp >= 66864 /\ cp <= 66915
                  \/ cp >= 66928 /\ cp <= 66938
              ELSE
                IF cp < 67003
                THEN
                  \/ cp >= 66940 /\ cp <= 66954
                  \/ cp >= 66956 /\ cp <= 66962
                  \/ cp >= 66964 /\ cp <= 66965
                  \/ cp >= 66967 /\ cp <= 66977
                  \/ cp >= 66979 /\ cp <= 66993
                  \/ cp >= 66995 /\ cp <= 67001
                ELSE
                  \/ cp >= 67003 /\ cp <= 67004
                  \/ cp >= 67008 /\ cp <= 67059
                  \/ cp >= 67072 /\ cp <= 67382
                  \/ cp >= 67392 /\ cp <= 67413
                  \/ cp >= 67424 /\ cp <= 67431
                  \/ cp >= 67456 /\ cp <= 67461
            ELSE
              IF cp < 67840
              THEN
                IF cp < 67644
                THEN
                  \/ cp >= 67463 /\ cp <= 67504
                  \/ cp >= 67506 /\ cp <= 67514
                  \/ cp >= 67584 /\ cp <= 67589
                  \/ cp = 67592
                  \/ cp >= 67594 /\ cp <= 67637
                  \/ cp >= 67639 /\ cp <= 67640
                ELSE
                  \/ cp = 67644
                  \/ cp >= 67647 /\ cp <= 67669
                  \/ cp >= 67680 /\ cp <= 67702
                  \/ cp >= 67712 /\ cp <= 67742
                  \/ cp >= 67808 /\ cp <= 67826
                  \/ cp >= 67828 /\ cp <= 67829
              ELSE
                IF cp < 68101
                THEN
                  \/ cp >= 67840 /\ cp <= 67861
                  \/ cp >= 67872 /\ cp <= 67897
                  \/ cp >= 67904 /\ cp <= 67929
                  \/ cp >= 67968 /\ cp <= 68023
                  \/ cp >= 68030 /\ cp <= 68031
                  \/ cp >= 68096 /\ cp <= 68099
                ELSE
                  \/ cp >= 68101 /\ cp <= 68102
                  \/ cp >= 68108 /\ cp <= 68115
                  \/ cp >= 68117 /\ cp <= 68119
                  \/ cp >= 68121 /\ cp <= 68149
                  \/ cp >= 68192 /\ cp <= 68220
                  \/ cp >= 68224 /\ cp <= 68252
        ELSE
          IF cp < 70320
          THEN
            IF cp < 69600
            THEN
              IF cp < 68969
              THEN
                IF cp < 68480
                THEN
                  \/ cp >= 68288 /\ cp <= 68295
                  \/ cp >= 68297 /\ cp <= 68324
                  \/ cp >= 68352 /\ cp <= 68405
                  \/ cp >= 68416 /\ cp <= 68437
                  \/ cp >= 68448 /\ cp <= 68466
                ELSE
                  \/ cp >= 68480 /\ cp <= 68497
                  \/ cp >= 68608 /\ cp <= 68680
                  \/ cp >= 68736 /\ cp <= 68786
                  \/ cp >= 68800 /\ cp <= 68850
                  \/ cp >= 68864 /\ cp <= 68903
                  \/ cp >= 68938 /\ cp <= 68965
              ELSE
                IF cp < 69370
                THEN
                  \/ cp = 68969
                  \/ cp >= 68975 /\ cp <= 68997
                  \/ cp >= 69248 /\ cp <= 69289
                  \/ cp >= 69291 /\ cp <= 69292
                  \/ cp >= 69296 /\ cp <= 69297
                  \/ cp >= 69314 /\ cp <= 69319
                ELSE
                  \/ cp >= 69370 /\ cp <= 69372
                  \/ cp >= 69376 /\ cp <= 69404
                  \/ cp = 69415
                  \/ cp >= 69424 /\ cp <= 69445
                  \/ cp >= 69488 /\ cp <= 69505
                  \/ cp >= 69552 /\ cp <= 69572
            ELSE
              IF cp < 70094
              THEN
                IF cp < 69888
                THEN
                  \/ cp >= 69600 /\ cp <= 69622
                  \/ cp >= 69632 /\ cp <= 69701
                  \/ cp >= 69745 /\ cp <= 69749
                  \/ cp >= 69760 /\ cp <= 69816
                  \/ cp = 69826
                  \/ cp >= 69840 /\ cp <= 69864
                ELSE
                  \/ cp >= 69888 /\ cp <= 69938
                  \/ cp >= 69956 /\ cp <= 69959
                  \/ cp >= 69968 /\ cp <= 70002
                  \/ cp = 70006
                  \/ cp >= 70016 /\ cp <= 70079
                  \/ cp >= 70081 /\ cp <= 70084
              ELSE
                IF cp < 70206
                THEN
                  \/ cp >= 70094 /\ cp <= 70095
                  \/ cp = 70106
                  \/ cp = 70108
                  \/ cp >= 70144 /\ cp <= 70161
                  \/ cp >= 70163 /\ cp <= 70196
                  \/ cp = 70199
                ELSE
                  \/ cp >= 70206 /\ cp <= 70209
                  \/ cp >= 70272 /\ cp <= 70278
                  \/ cp = 70280
                  \/ cp >= 70282 /\ cp <= 70285
                  \/ cp >= 70287 /\ cp <= 70301
                  \/ cp >= 70303 /\ cp <= 70312
          ELSE
            IF cp < 70611
            THEN
              IF cp < 70487
              THEN
                IF cp < 70450
                THEN
                  \/ cp >= 70320 /\ cp <= 70376
                  \/ cp >= 70400 /\ cp <= 70403
                  \/ cp >= 70405 /\ cp <= 70412
                  \/ cp >= 70415 /\ cp <= 70416
                  \/ cp >= 70419 /\ cp <= 70440
                  \/ cp >= 70442 /\ cp <= 70448
                ELSE
                  \/ cp >= 70450 /\ cp <= 70451
                  \/ cp >= 70453 /\ cp <= 70457
                  \/ cp >= 70461 /\ cp <= 70468
                  \/ cp >= 70471 /\ cp <= 70472
                  \/ cp >= 70475 /\ cp <= 70476
                  \/ cp = 70480
              ELSE
                IF cp < 70583
                THEN
                  \/ cp = 70487
                  \/ cp >= 70493 /\ cp <= 70499
                  \/ cp >= 70528 /\ cp <= 70537
                  \/ cp = 70539
                  \/ cp = 70542
                  \/ cp >= 70544 /\ cp <= 70581
                ELSE
                  \/ cp >= 70583 /\ cp <= 70592
                  \/ cp = 70594
                  \/ cp = 70597
                  \/ cp >= 70599 /\ cp <= 70602
                  \/ cp >= 70604 /\ cp <= 70605
                  \/ cp = 70609
            ELSE
              IF cp < 71232
              THEN
                IF cp < 70852
                THEN
                  \/ cp = 70611
                  \/ cp >= 70656 /\ cp <= 70721
                  \/ cp >= 70723 /\ cp <= 70725
                  \/ cp >= 70727 /\ cp <= 70730
                  \/ cp >= 70751 /\ cp <= 70753
                  \/ cp >= 70784 /\ cp <= 70849
                ELSE
                  \/ cp >= 70852 /\ cp <= 70853
                  \/ cp = 70855
                  \/ cp >= 71040 /\ cp <= 71093
                  \/ cp >= 71096 /\ cp <= 71102
                  \/ cp >= 71128 /\ cp <= 71133
                  \/ cp >= 71168 /\ cp <= 71230
              ELSE
                IF cp < 71488
                THEN
                  \/ cp = 71232
                  \/ cp = 71236
                  \/ cp >= 71296 /\ cp <= 71349
                  \/ cp = 71352
                  \/ cp >= 71424 /\ cp <= 71450
                  \/ cp >= 71453 /\ cp <= 71466
                ELSE
                  \/ cp >= 71488 /\ cp <= 71494
                  \/ cp >= 71680 /\ cp <= 71736
                  \/ cp >= 71840 /\ cp <= 71903
                  \/ cp >= 71935 /\ cp <= 71942
                  \/ cp = 71945
                  \/ cp >= 71948 /\ cp <= 71955
      ELSE
        IF cp < 119995
        THEN
          IF cp < 77712
          THEN
            IF cp < 72873
            THEN
              IF cp < 72245
              THEN
                IF cp < 72096
                THEN
                  \/ cp >= 71957 /\ cp <= 71958
                  \/ cp >= 71960 /\ cp <= 71989
                  \/ cp >= 71991 /\ cp <= 71992
                  \/ cp >= 71995 /\ cp <= 71996
                  \/ cp >= 71999 /\ cp <= 72002
                ELSE
                  \/ cp >= 72096 /\ cp <= 72103
                  \/ cp >= 72106 /\ cp <= 72151
                  \/ cp >= 72154 /\ cp <= 72159
                  \/ cp = 72161
                  \/ cp >= 72163 /\ cp <= 72164
                  \/ cp >= 72192 /\ cp <= 72242
              ELSE
                IF cp < 72704
                THEN
                  \/ cp >= 72245 /\ cp <= 72254
                  \/ cp >= 72272 /\ cp <= 72343
                  \/ cp = 72349
                  \/ cp >= 72368 /\ cp <= 72440
                  \/ cp >= 72544 /\ cp <= 72551
                  \/ cp >= 72640 /\ cp <= 72672
                ELSE
                  \/ cp >= 72704 /\ cp <= 72712
                  \/ cp >= 72714 /\ cp <= 72758
                  \/ cp >= 72760 /\ cp <= 72766
                  \/ cp = 72768
                  \/ cp >= 72818 /\ cp <= 72847
                  \/ cp >= 72850 /\ cp <= 72871
            ELSE
              IF cp < 73104
              THEN
                IF cp < 73023
                THEN
                  \/ cp >= 72873 /\ cp <= 72886
                  \/ cp >= 72960 /\ cp <= 72966
                  \/ cp >= 72968 /\ cp <= 72969
                  \/ cp >= 72971 /\ cp <= 73014
                  \/ cp = 73018
                  \/ cp >= 73020 /\ cp <= 73021
                ELSE
                  \/ cp >= 73023 /\ cp <= 73025
                  \/ cp = 73027
                  \/ cp >= 73030 /\ cp <= 73031
                  \/ cp >= 73056 /\ cp <= 73061
                  \/ cp >= 73063 /\ cp <= 73064
                  \/ cp >= 73066 /\ cp <= 73102
              ELSE
                IF cp < 73490
                THEN
                  \/ cp >= 73104 /\ cp <= 73105
                  \/ cp >= 73107 /\ cp <= 73110
                  \/ cp = 73112
                  \/ cp >= 73136 /\ cp <= 73179
                  \/ cp >= 73440 /\ cp <= 73462
                  \/ cp >= 73472 /\ cp <= 73488
                ELSE
                  \/ cp >= 73490 /\ cp <= 73530
                  \/ cp >= 73534 /\ cp <= 73536
                  \/ cp = 73648
                  \/ cp >= 73728 /\ cp <= 74649
                  \/ cp >= 74752 /\ cp <= 74862
                  \/ cp >= 74880 /\ cp <= 75075
          ELSE
            IF cp < 94208
            THEN
              IF cp < 93027
              THEN
                IF cp < 92160
                THEN
                  \/ cp >= 77712 /\ cp <= 77808
                  \/ cp >= 77824 /\ cp <= 78895
                  \/ cp >= 78913 /\ cp <= 78918
                  \/ cp >= 78944 /\ cp <= 82938
                  \/ cp >= 82944 /\ cp <= 83526
                  \/ cp >= 90368 /\ cp <= 90414
                ELSE
                  \/ cp >= 92160 /\ cp <= 92728
                  \/ cp >= 92736 /\ cp <= 92766
                  \/ cp >= 92784 /\ cp <= 92862
                  \/ cp >= 92880 /\ cp <= 92909
                  \/ cp >= 92928 /\ cp <= 92975
                  \/ cp >= 92992 /\ cp <= 92995
              ELSE
                IF cp < 93952
                THEN
                  \/ cp >= 93027 /\ cp <= 93047
                  \/ cp >= 93053 /\ cp <= 93071
                  \/ cp >= 93504 /\ cp <= 93548
                  \/ cp >= 93760 /\ cp <= 93823
                  \/ cp >= 93856 /\ cp <= 93880
                  \/ cp >= 93883 /\ cp <= 93907
                ELSE
                  \/ cp >= 93952 /\ cp <= 94026
                  \/ cp >= 94031 /\ cp <= 94087
                  \/ cp >= 94095 /\ cp <= 94111
                  \/ cp >= 94176 /\ cp <= 94177
                  \/ cp = 94179
                  \/ cp >= 94192 /\ cp <= 94198
            ELSE
              IF cp < 113664
              THEN
                IF cp < 110592
                THEN
                  \/ cp >= 94208 /\ cp <= 101589
                  \/ cp >= 101631 /\ cp <= 101662
                  \/ cp >= 101760 /\ cp <= 101874
                  \/ cp >= 110576 /\ cp <= 110579
                  \/ cp >= 110581 /\ cp <= 110587
                  \/ cp >= 110589 /\ cp <= 110590
                ELSE
                  \/ cp >= 110592 /\ cp <= 110882
                  \/ cp = 110898
                  \/ cp >= 110928 /\ cp <= 110930
                  \/ cp = 110933
                  \/ cp >= 110948 /\ cp <= 110951
                  \/ cp >= 110960 /\ cp <= 111355
              ELSE
                IF cp < 119894
                THEN
                  \/ cp >= 113664 /\ cp <= 113770
                  \/ cp >= 113776 /\ cp <= 113788
                  \/ cp >= 113792 /\ cp <= 113800
                  \/ cp >= 113808 /\ cp <= 113817
                  \/ cp = 113822
                  \/ cp >= 119808 /\ cp <= 119892
                ELSE
                  \/ cp >= 119894 /\ cp <= 119964
                  \/ cp >= 119966 /\ cp <= 119967
                  \/ cp = 119970
                  \/ cp >= 119973 /\ cp <= 119974
                  \/ cp >= 119977 /\ cp <= 119980
                  \/ cp >= 119982 /\ cp <= 119993
        ELSE
          IF cp < 124928
          THEN
            IF cp < 122624
            THEN
              IF cp < 120146
              THEN
                IF cp < 120086
                THEN
                  \/ cp = 119995
                  \/ cp >= 119997 /\ cp <= 120003
                  \/ cp >= 120005 /\ cp <= 120069
                  \/ cp >= 120071 /\ cp <= 120074
                  \/ cp >= 120077 /\ cp <= 120084
                ELSE
                  \/ cp >= 120086 /\ cp <= 120092
                  \/ cp >= 120094 /\ cp <= 120121
                  \/ cp >= 120123 /\ cp <= 120126
                  \/ cp >= 120128 /\ cp <= 120132
                  \/ cp = 120134
                  \/ cp >= 120138 /\ cp <= 120144
              ELSE
                IF cp < 120630
                THEN
                  \/ cp >= 120146 /\ cp <= 120485
                  \/ cp >= 120488 /\ cp <= 120512
                  \/ cp >= 120514 /\ cp <= 120538
                  \/ cp >= 120540 /\ cp <= 120570
                  \/ cp >= 120572 /\ cp <= 120596
                  \/ cp >= 120598 /\ cp <= 120628
                ELSE
                  \/ cp >= 120630 /\ cp <= 120654
                  \/ cp >= 120656 /\ cp <= 120686
                  \/ cp >= 120688 /\ cp <= 120712
                  \/ cp >= 120714 /\ cp <= 120744
                  \/ cp >= 120746 /\ cp <= 120770
                  \/ cp >= 120772 /\ cp <= 120779
            ELSE
              IF cp < 123536
              THEN
                IF cp < 122918
                THEN
                  \/ cp >= 122624 /\ cp <= 122654
                  \/ cp >= 122661 /\ cp <= 122666
                  \/ cp >= 122880 /\ cp <= 122886
                  \/ cp >= 122888 /\ cp <= 122904
                  \/ cp >= 122907 /\ cp <= 122913
                  \/ cp >= 122915 /\ cp <= 122916
                ELSE
                  \/ cp >= 122918 /\ cp <= 122922
                  \/ cp >= 122928 /\ cp <= 122989
                  \/ cp = 123023
                  \/ cp >= 123136 /\ cp <= 123180
                  \/ cp >= 123191 /\ cp <= 123197
                  \/ cp = 123214
              ELSE
                IF cp < 124640
                THEN
                  \/ cp >= 123536 /\ cp <= 123565
                  \/ cp >= 123584 /\ cp <= 123627
                  \/ cp >= 124112 /\ cp <= 124139
                  \/ cp >= 124368 /\ cp <= 124397
                  \/ cp = 124400
                  \/ cp >= 124608 /\ cp <= 124638
                ELSE
                  \/ cp >= 124640 /\ cp <= 124661
                  \/ cp >= 124670 /\ cp <= 124671
                  \/ cp >= 124896 /\ cp <= 124902
                  \/ cp >= 124904 /\ cp <= 124907
                  \/ cp >= 124909 /\ cp <= 124910
                  \/ cp >= 124912 /\ cp <= 124926
          ELSE
            IF cp < 126559
            THEN
              IF cp < 126523
              THEN
                IF cp < 126497
                THEN
                  \/ cp >= 124928 /\ cp <= 125124
                  \/ cp >= 125184 /\ cp <= 125251
                  \/ cp = 125255
                  \/ cp = 125259
                  \/ cp >= 126464 /\ cp <= 126467
                  \/ cp >= 126469 /\ cp <= 126495
                ELSE
                  \/ cp >= 126497 /\ cp <= 126498
                  \/ cp = 126500
                  \/ cp = 126503
                  \/ cp >= 126505 /\ cp <= 126514
                  \/ cp >= 126516 /\ cp <= 126519
                  \/ cp = 126521
              ELSE
                IF cp < 126545
                THEN
                  \/ cp = 126523
                  \/ cp = 126530
                  \/ cp = 126535
                  \/ cp = 126537
                  \/ cp = 126539
                  \/ cp >= 126541 /\ cp <= 126543
                ELSE
                  \/ cp >= 126545 /\ cp <= 126546
                  \/ cp = 126548
                  \/ cp = 126551
                  \/ cp = 126553
                  \/ cp = 126555
                  \/ cp = 126557
            ELSE
              IF cp < 126635
              THEN
                IF cp < 126585
                THEN
                  \/ cp = 126559
                  \/ cp >= 126561 /\ cp <= 126562
                  \/ cp = 126564
                  \/ cp >= 126567 /\ cp <= 126570
                  \/ cp >= 126572 /\ cp <= 126578
                  \/ cp >= 126580 /\ cp <= 126583
                ELSE
                  \/ cp >= 126585 /\ cp <= 126588
                  \/ cp = 126590
                  \/ cp >= 126592 /\ cp <= 126601
                  \/ cp >= 126603 /\ cp <= 126619
                  \/ cp >= 126625 /\ cp <= 126627
                  \/ cp >= 126629 /\ cp <= 126633
              ELSE
                IF cp < 178208
                THEN
                  \/ cp >= 126635 /\ cp <= 126651
                  \/ cp >= 127280 /\ cp <= 127305
                  \/ cp >= 127312 /\ cp <= 127337
                  \/ cp >= 127344 /\ cp <= 127369
                  \/ cp >= 131072 /\ cp <= 173791
                  \/ cp >= 173824 /\ cp <= 178205
                ELSE
                  \/ cp >= 178208 /\ cp <= 183981
                  \/ cp >= 183984 /\ cp <= 191456
                  \/ cp >= 191472 /\ cp <= 192093
                  \/ cp >= 194560 /\ cp <= 195101
                  \/ cp >= 196608 /\ cp <= 201546
                  \/ cp >= 201552 /\ cp <= 210041

\* char::is_alphabetic: the ASCII letters, or a code point above U+007F
\* that the table holds
is_alphabetic(cp) ==
    \/ cp >= 97 /\ cp <= 122
    \/ cp >= 65 /\ cp <= 90
    \/ cp > 127 /\ Alphabetic(cp)

Hyphen == 45

(* -------------------------------------------------------- parse results *)
Ok(rest, val) == [tag |-> "Ok", rest |-> rest, val |-> val]
Err(at) == [tag |-> "Err", at |-> at]
IsOk(r) == r.tag = "Ok"
IsErr(r) == r.tag = "Err"
\* the call did not return: a panic unwound through it
Panicked == [tag |-> "Panic"]
IsPanic(r) == r.tag = "Panic"
\* Ok((&input[n..], val))
OkFrom(input, n, val) ==
    IF can_slice_from(input, n) THEN Ok(slice_from(input, n), val) ELSE Panicked
\* the unit value ()
Unit == <<>>

\* F applied to the value of v: v is evaluated once and bound, as a
\* `let x = v;` or a closure parameter binds it
With(v, F(_)) == CHOOSE out \in { F(x) : x \in {v} } : TRUE

(* ----------------------------------------------------------- primitives *)
\* match_letter slicing off one byte instead of letter.len_utf8()
match_letter_one_byte(c, input) ==
    LET n == chars_next(input) IN
    IF n.some /\ CodePoint(n.v) = c
    THEN OkFrom(input, 1, Unit)
    ELSE Err(input)

\* match_letter(c, input); c is a code point
match_letter(c, input) ==
    LET n == chars_next(input) IN
    IF n.some /\ CodePoint(n.v) = c
    THEN OkFrom(input, len_utf8(n.v[1]), Unit)
    ELSE Err(input)

\* the number of characters of s
chars_count(s) == Cardinality({ k \in 1..Len(s) : ~IsContinuation(s[k]) })

\* match_literal measuring expected in characters instead of bytes
match_literal_chars(expected, input) ==
    LET n == get_prefix(input, chars_count(expected)) IN
    IF n.some /\ n.v = expected
    THEN OkFrom(input, chars_count(expected), expected)
    ELSE Err(input)

\* match_literal with the two components of the Ok tuple exchanged
match_literal_swapped(expected, input) ==
    LET n == get_prefix(input, Len(expected)) IN
    IF n.some /\ n.v = expected
    THEN OkFrom(expected, 0, slice_from(input, Len(expected)))
    ELSE Err(input)

\* match_literal(expected).parse(input)
match_literal(expected, input) ==
    LET n == get_prefix(input, Len(expected)) IN
    IF n.some /\ n.v = expected
    THEN OkFrom(input, Len(expected), expected)
    ELSE Err(input)

\* the while-let loop of match_ident: from byte offset k of s on, the end of
\* the run of alphabetic-or-hyphen characters, that is, the offset of the
\* character the loop breaks at, or the end of s
ident_run_end(s, start) ==
    LET run_end[k \in 0..Len(s)] ==
            IF k < Len(s)
               /\ LET next == CodePoint(SubSeq(s, k + 1, k + len_utf8(s[k + 1])))
                  IN is_alphabetic(next) \/ next = Hyphen
            THEN run_end[k + len_utf8(s[k + 1])]
            ELSE k
    IN run_end[start]

\* the characters the loop pushed onto matched
ident_run(s, start) == SubSeq(s, start + 1, ident_run_end(s, start))

\* match_ident taking next_index as the number of characters matched
match_ident_chars(input) ==
    LET n == chars_next(input) IN
    IF n.some /\ is_alphabetic(CodePoint(n.v))
    THEN LET matched == n.v \o ident_run(input, Len(n.v))
             next_index == chars_count(matched)
         IN OkFrom(input, next_index, matched)
    ELSE Err(input)

\* match_ident(input)
match_ident(input) ==
    LET n == chars_next(input) IN
    IF n.some /\ is_alphabetic(CodePoint(n.v))
    THEN LET matched == n.v \o ident_run(input, Len(n.v))
             next_index == Len(matched)
         IN OkFrom(input, next_index, matched)
    ELSE Err(input)

(* -------------------------------------------------------- parser values *)
\* parser_fun.rs: closures implementing Parser
Literal(e) == [kind |-> "match_literal", expected |-> e]
Ident == [kind |-> "match_ident"]
Letter(c) == [kind |-> "match_letter", c |-> c]
Pair(p1, p2) == [kind |-> "pair", p1 |-> p1, p2 |-> p2]
Map(p, f) == [kind |-> "map", parser |-> p, map_fn |-> f]
ZeroOrMore(p) == [kind |-> "zero_or_more", parser |-> p]
OneOrMore(p) == [kind |-> "one_or_more", parser |-> p]
\* parser_struct.rs: structs implementing ParserStruct
LiteralParser(e) == [kind |-> "LiteralParser", expected |-> e]
IdentParser == [kind |-> "IdentParser"]
PairParser(a, b) == [kind |-> "PairParser", parser_a |-> a, parser_b |-> b]
ZeroOrMoreParser(p) == [kind |-> "ZeroOrMoreParser", parser |-> p]

\* the functions handed to map: the constructor |id| Ident { val: id } of
\* the tests, a function to the unit value, and a function that panics when
\* it is invoked
MapFns == {"Ident", "unit"}
Abort == "abort"
apply_fn(f, v) == IF f = "Ident" THEN [val |-> v] ELSE Unit

(* ---------------------------------------------------------- combinators *)
RECURSIVE Parse(_, _)

\* pair backtracking to its own input when p2 fails
pair_backtrack(p1, p2, input) ==
    With(Parse(p1, input), LAMBDA r1 :
        IF IsOk(r1)
        THEN With(Parse(p2, r1.rest), LAMBDA r2 :
                 IF IsOk(r2) THEN Ok(r2.rest, <<r1.val, r2.val>>)
                 ELSE IF IsPanic(r2) THEN r2 ELSE Err(input))
        ELSE r1)

\* pair(p1, p2).parse(input)
pair(p1, p2, input) ==
    With(Parse(p1, input), LAMBDA r1 :
        IF IsOk(r1)
        THEN With(Parse(p2, r1.rest), LAMBDA r2 :
                 IF IsOk(r2) THEN Ok(r2.rest, <<r1.val, r2.val>>) ELSE r2)
        ELSE r1)

\* map returning its own input as the remainder
map_keeps_input(parser, map_fn, input) ==
    With(Parse(parser, input), LAMBDA r :
        IF IsOk(r)
        THEN IF map_fn = Abort THEN Panicked ELSE Ok(input, apply_fn(map_fn, r.val))
        ELSE r)

\* map(parser, map_fn).parse(input)
map(parser, map_fn, input) ==
    With(Parse(parser, input), LAMBDA r :
        IF IsOk(r)
        THEN IF map_fn = Abort THEN Panicked ELSE Ok(r.rest, apply_fn(map_fn, r.val))
        ELSE r)

\* the loop body putting parsed in front of the values collected so far
while_let_step_prepend(parser, to_parse, result) ==
    With(Parse(parser, to_parse), LAMBDA r :
        IF IsOk(r)
        THEN [continue |-> TRUE, to_parse |-> r.rest, result |-> <<r.val>> \o result]
        ELSE [continue |-> FALSE, to_parse |-> to_parse, result |-> result,
              return |-> IF IsPanic(r) THEN Panicked ELSE Ok(to_parse, result)])

\* one evaluation of `while let Ok((rest, parsed)) = parser.parse(to_parse)`:
\* on Ok the body pushes parsed and moves to_parse to rest; on Err the loop
\* is left and the function returns Ok((to_parse, result)); a panic of the
\* inner parser unwinds through the loop
while_let_step(parser, to_parse, result) ==
    With(Parse(parser, to_parse), LAMBDA r :
        IF IsOk(r)
        THEN [continue |-> TRUE, to_parse |-> r.rest, result |-> Append(result, r.val)]
        ELSE [continue |-> FALSE, to_parse |-> to_parse, result |-> result,
              return |-> IF IsPanic(r) THEN Panicked ELSE Ok(to_parse, result)])

\* the while-let loop run to its exit, and the Ok((to_parse, result)) after it
RECURSIVE while_let(_, _, _)
while_let(parser, to_parse, result) ==
    With(while_let_step(parser, to_parse, result), LAMBDA s :
        IF s.continue THEN while_let(parser, s.to_parse, s.result) ELSE s.return)

\* zero_or_more(parser).parse(input)
zero_or_more(parser, input) == while_let(parser, input, <<>>)

\* one_or_more returning the failure of the first attempt as it is
one_or_more_first_leak(parser, input) ==
    With(Parse(parser, input), LAMBDA r :
        IF IsOk(r)
        THEN [continue |-> TRUE, to_parse |-> r.rest, result |-> <<r.val>>]
        ELSE [continue |-> FALSE, to_parse |-> input, result |-> <<>>, return |-> r])

\* one_or_more without the push of the first value
one_or_more_first_no_push(parser, input) ==
    With(Parse(parser, input), LAMBDA r :
        IF IsOk(r)
        THEN [continue |-> TRUE, to_parse |-> r.rest, result |-> <<>>]
        ELSE [continue |-> FALSE, to_parse |-> input, result |-> <<>>,
              return |-> IF IsPanic(r) THEN Panicked ELSE Err(input)])

\* the `if let Ok(..) = parser.parse(to_parse) {..} else { return Err(input) }`
\* that opens one_or_more
one_or_more_first(parser, input) ==
    With(Parse(parser, input), LAMBDA r :
        IF IsOk(r)
        THEN [continue |-> TRUE, to_parse |-> r.rest, result |-> <<r.val>>]
        ELSE [continue |-> FALSE, to_parse |-> input, result |-> <<>>,
              return |-> IF IsPanic(r) THEN Panicked ELSE Err(input)])

\* one_or_more(parser).parse(input)
one_or_more(parser, input) ==
    With(one_or_more_first(parser, input), LAMBDA s :
        IF s.continue THEN while_let(parser, s.to_parse, s.result) ELSE s.return)

\* LiteralParser::parse
LiteralParser_parse(expected, input) ==
    LET n == get_prefix(input, Len(expected)) IN
    IF n.some /\ n.v = expected
    THEN OkFrom(input, Len(expected), expected)
    ELSE Err(input)

\* IdentParser::parse
IdentParser_parse(input) ==
    LET n == chars_next(input) IN
    IF n.some /\ is_alphabetic(CodePoint(n.v))
    THEN LET matched == n.v \o ident_run(input, Len(n.v))
             next_index == Len(matched)
         IN OkFrom(input, next_index, matched)
    ELSE Err(input)

\* PairParser::parse
PairParser_parse(parser_a, parser_b, input) ==
    With(Parse(parser_a, input), LAMBDA ra :
        IF IsOk(ra)
        THEN With(Parse(parser_b, ra.rest), LAMBDA rb :
                 IF IsOk(rb) THEN Ok(rb.rest, <<ra.val, rb.val>>) ELSE rb)
        ELSE ra)

\* one evaluation of the loop condition of ZeroOrMoreParser::parse, on a
\* clone of to_parse
ZeroOrMoreParser_step(parser, to_parse, result) ==
    With(Parse(parser, to_parse), LAMBDA r :
        IF IsOk(r)
        THEN [continue |-> TRUE, to_parse |-> r.rest, result |-> Append(result, r.val)]
        ELSE [continue |-> FALSE, to_parse |-> to_parse, result |-> result,
              return |-> IF IsPanic(r) THEN Panicked ELSE Ok(to_parse, result)])

\* the loop of ZeroOrMoreParser::parse run to its exit
RECURSIVE ZeroOrMoreParser_loop(_, _, _)
ZeroOrMoreParser_loop(parser, to_parse, result) ==
    With(ZeroOrMoreParser_step(parser, to_parse, result), LAMBDA s :
        IF s.continue THEN ZeroOrMoreParser_loop(parser, s.to_parse, s.result) ELSE s.return)

\* ZeroOrMoreParser::parse
ZeroOrMoreParser_parse(parser, input) == ZeroOrMoreParser_loop(parser, input, <<>>)

\* the implementation behind a parser value
Dispatch(p, input) ==
    CASE p.kind = "match_literal" -> match_literal(p.expected, input)
      [] p.kind = "match_ident" -> match_ident(input)
      [] p.kind = "match_letter" -> match_letter(p.c, input)
      [] p.kind = "pair" -> pair(p.p1, p.p2, input)
      [] p.kind = "map" -> map(p.parser, p.map_fn, input)
      [] p.kind = "zero_or_more" -> zero_or_more(p.parser, input)
      [] p.kind = "one_or_more" -> one_or_more(p.parser, input)
      [] p.kind = "LiteralParser" -> LiteralParser_parse(p.expected, input)
      [] p.kind = "IdentParser" -> IdentParser_parse(input)
      [] p.kind = "PairParser" -> PairParser_parse(p.parser_a, p.parser_b, input)
      [] p.kind = "ZeroOrMoreParser" -> ZeroOrMoreParser_parse(p.parser, input)

\* Parser::parse / ParserStruct::parse: the call self(input), on the value
\* of the input
Parse(p, input) == With(input, LAMBDA i : Dispatch(p, i))

(* ------------------------------------------------- parsers under test *)
\* a parser that may succeed without consuming input
RECURSIVE Nullable(_)
Nullable(p) ==
    CASE p.kind \in {"match_literal", "LiteralParser"} -> p.expected = <<>>
      [] p.kind \in {"match_ident", "IdentParser", "match_letter"} -> FALSE
      [] p.kind = "pair" -> Nullable(p.p1) /\ Nullable(p.p2)
      [] p.kind = "PairParser" -> Nullable(p.parser_a) /\ Nullable(p.parser_b)
      [] p.kind \in {"map", "one_or_more"} -> Nullable(p.parser)
      [] p.kind \in {"zero_or_more", "ZeroOrMoreParser"} -> TRUE

Literals == { Literal(e) : e \in LitTexts }
Letters == { Letter(CodePoint(c)) : c \in Chars }
Prims == Literals \cup Letters \cup {Ident}
\* the parsers every primitive is paired with
Core == { Ident, Literal(<<>>), Literal(<<45>>), Letter(233) }
Pairs == { Pair(p, q) : p \in Prims, q \in Core } \cup { Pair(q, p) : p \in Prims, q \in Core }
\* repetition of a parser that makes progress: usable inside other parsers
Reps(S) == { ZeroOrMore(p) : p \in { q \in S : ~Nullable(q) } }
              \cup { OneOrMore(p) : p \in { q \in S : ~Nullable(q) } }
Level1 == Pairs \cup { Map(p, f) : p \in Prims, f \in MapFns } \cup Reps(Prims)
\* an identifier before or after a repetition: a parser whose successive
\* values differ on adjacent characters
RepPairs ==
    { Pair(q, Ident) : q \in Reps(Prims) } \cup { Pair(Ident, q) : q \in Reps(Prims) }
\* a pair as the second component of a pair
NestedPairs == { Pair(p, Pair(q, r)) : p \in Prims, q \in Core, r \in Core }
\* composites of composites
Level2 ==
    { Pair(Pair(Literal(a), Ident), Literal(b)) : a, b \in LitTexts }
      \cup RepPairs \cup NestedPairs
      \cup { Map(q, f) : q \in Pairs \cup Reps(Prims), f \in MapFns }
\* a repetition at the top may be of any parser, also one that makes no
\* progress; so may a map with a function that panics
FunParsers ==
    Prims \cup Level1 \cup Level2
      \cup { ZeroOrMore(p) : p \in Prims \cup Level1 \cup RepPairs }
      \cup { OneOrMore(p) : p \in Prims \cup Level1 \cup RepPairs }
      \cup { Map(p, Abort) : p \in Prims \cup Pairs }
      \cup { Pair(p, Map(q, Abort)) : p \in Prims, q \in Core }

LiteralParsers == { LiteralParser(e) : e \in LitTexts }
StructPrims == LiteralParsers \cup {IdentParser}
PairParsers ==
    { PairParser(a, b) : a \in StructPrims, b \in {IdentParser, LiteralParser(<<>>), LiteralParser(<<45>>)} }
      \cup { PairParser(PairParser(LiteralParser(a), IdentParser), LiteralParser(b)) : a, b \in LitTexts }
      \cup { PairParser(a, PairParser(b, c)) :
               a \in StructPrims,
               b \in {IdentParser, LiteralParser(<<>>), LiteralParser(<<45>>)},
               c \in {IdentParser, LiteralParser(<<>>), LiteralParser(<<45>>)} }
StructParsers ==
    StructPrims \cup PairParsers
      \cup { ZeroOrMoreParser(p) : p \in StructPrims \cup PairParsers }

Parsers == FunParsers \cup StructParsers

\* most values a capped run of the loop collects
MaxCollected == 5

(* -------------------------------------------------------- state machine *)
VARIABLES parser, input, pc, to_parse, result, outcome

vars == <<parser, input, pc, to_parse, result, outcome>>

NoOutcome == [tag |-> "None"]

Init ==
    /\ parser \in Parsers
    /\ input \in Inputs
    /\ pc = "ready"
    /\ to_parse = <<>>
    /\ result = <<>>
    /\ outcome = NoOutcome

\* parser.parse(input) returns r
Return(r) ==
    /\ outcome' = r
    /\ pc' = "done"
    /\ UNCHANGED <<parser, input, to_parse, result>>

RunLetter ==
    /\ pc = "ready" /\ parser.kind = "match_letter"
    /\ Return(match_letter(parser.c, input))

RunLiteral ==
    /\ pc = "ready" /\ parser.kind = "match_literal"
    /\ Return(match_literal(parser.expected, input))

RunIdent ==
    /\ pc = "ready" /\ parser.kind = "match_ident"
    /\ Return(match_ident(input))

RunPair ==
    /\ pc = "ready" /\ parser.kind = "pair"
    /\ Return(pair(parser.p1, parser.p2, input))

RunMap ==
    /\ pc = "ready" /\ parser.kind = "map"
    /\ Return(map(parser.parser, parser.map_fn, input))

\* zero_or_more: the two `let mut` before the loop
ZeroOrMoreEnter ==
    /\ pc = "ready" /\ parser.kind = "zero_or_more"
    /\ result' = <<>>
    /\ to_parse' = input
    /\ pc' = "loop"
    /\ UNCHANGED <<parser, input, outcome>>

\* one_or_more: the two `let mut` and the first attempt
OneOrMoreEnter ==
    /\ pc = "ready" /\ parser.kind = "one_or_more"
    /\ \E s \in { one_or_more_first(parser.parser, input) } :
       /\ to_parse' = s.to_parse
       /\ result' = s.result
       /\ IF s.continue
          THEN pc' = "loop" /\ outcome' = outcome
          ELSE pc' = "done" /\ outcome' = s.return
    /\ UNCHANGED <<parser, input>>

\* the loop body without `to_parse = rest`
WhileLet_stuck ==
    /\ pc = "loop" /\ parser.kind \in {"zero_or_more", "one_or_more"}
    /\ Len(result) < MaxCollected
    /\ \E s \in { while_let_step(parser.parser, to_parse, result) } :
       /\ to_parse' = to_parse
       /\ result' = s.result
       /\ IF s.continue
          THEN pc' = "loop" /\ outcome' = outcome
          ELSE pc' = "done" /\ outcome' = s.return
    /\ UNCHANGED <<parser, input>>

\* one evaluation of the while-let of zero_or_more / one_or_more
WhileLet ==
    /\ pc = "loop" /\ parser.kind \in {"zero_or_more", "one_or_more"}
    /\ Len(result) < MaxCollected
    /\ \E s \in { while_let_step(parser.parser, to_parse, result) } :
       /\ to_parse' = s.to_parse
       /\ result' = s.result
       /\ IF s.continue
          THEN pc' = "loop" /\ outcome' = outcome
          ELSE pc' = "done" /\ outcome' = s.return
    /\ UNCHANGED <<parser, input>>

RunLiteralParser ==
    /\ pc = "ready" /\ parser.kind = "LiteralParser"
    /\ Return(LiteralParser_parse(parser.expected, input))

RunIdentParser ==
    /\ pc = "ready" /\ parser.kind = "IdentParser"
    /\ Return(IdentParser_parse(input))

RunPairParser ==
    /\ pc = "ready" /\ parser.kind = "PairParser"
    /\ Return(PairParser_parse(parser.parser_a, parser.parser_b, input))

\* ZeroOrMoreParser::parse: the two `let mut` before the loop
ZeroOrMoreParserEnter ==
    /\ pc = "ready" /\ parser.kind = "ZeroOrMoreParser"
    /\ result' = <<>>
    /\ to_parse' = input
    /\ pc' = "loop"
    /\ UNCHANGED <<parser, input, outcome>>

\* one evaluation of the while-let of ZeroOrMoreParser::parse
ZeroOrMoreParserWhileLet ==
    /\ pc = "loop" /\ parser.kind = "ZeroOrMoreParser"
    /\ Len(result) < MaxCollected
    /\ \E s \in { ZeroOrMoreParser_step(parser.parser, to_parse, result) } :
       /\ to_parse' = s.to_parse
       /\ result' = s.result
       /\ IF s.continue
          THEN pc' = "loop" /\ outcome' = outcome
          ELSE pc' = "done" /\ outcome' = s.return
    /\ UNCHANGED <<parser, input>>

Next ==
    \/ RunLetter
    \/ RunLiteral
    \/ RunIdent
    \/ RunPair
    \/ RunMap
    \/ ZeroOrMoreEnter
    \/ OneOrMoreEnter
    \/ WhileLet
    \/ RunLiteralParser
    \/ RunIdentParser
    \/ RunPairParser
    \/ ZeroOrMoreParserEnter
    \/ ZeroOrMoreParserWhileLet

Spec == Init /\ [][Next]_vars

\* the repetition combinators alone
RepKinds == {"zero_or_more", "one_or_more", "ZeroOrMoreParser"}

\* the parsers repeated: the primitives, pairs and maps of them, and
\* repetitions that make progress
Repeated ==
    Prims \cup { Pair(p, q) : p \in Core, q \in Core }
      \cup { Map(Ident, f) : f \in MapFns } \cup Reps({Ident, Letter(97)})
RepeatedStructs ==
    StructPrims \cup { PairParser(IdentParser, b) : b \in StructPrims }
Repetitions ==
    { ZeroOrMore(p) : p \in Repeated } \cup { OneOrMore(p) : p \in Repeated }
      \cup { ZeroOrMoreParser(p) : p \in RepeatedStructs }

\* no call made yet: the caller holds some repetition parser and no input
InitLoop ==
    /\ parser \in { ZeroOrMore(Ident) }
    /\ input = <<>>
    /\ pc = "idle"
    /\ to_parse = <<>>
    /\ result = <<>>
    /\ outcome = NoOutcome

\* the caller builds a repetition parser and calls parse on an input
CallRepetition ==
    /\ pc = "idle"
    /\ parser' \in Repetitions
    /\ input' \in Inputs
    /\ pc' = "ready"
    /\ UNCHANGED <<to_parse, result, outcome>>

NextLoop ==
    \/ CallRepetition
    \/ ZeroOrMoreEnter
    \/ OneOrMoreEnter
    \/ WhileLet
    \/ ZeroOrMoreParserEnter
    \/ ZeroOrMoreParserWhileLet

\* a parse call runs to completion: every step that can be taken is taken
LoopSpec == InitLoop /\ [][NextLoop]_vars /\ WF_vars(NextLoop)

TypeOK ==
    /\ pc \in {"idle", "ready", "loop", "done"}
    /\ (pc = "done") = (outcome # NoOutcome)

(* ---------------------------------------------------------- properties *)
Done == pc = "done"

\* r is the tail of i
IsSuffix(r, i) ==
    /\ Len(r) <= Len(i)
    /\ r = SubSeq(i, Len(i) - Len(r) + 1, Len(i))

\* e is the head of i, byte for byte
IsPrefix(e, i) ==
    /\ Len(e) <= Len(i)
    /\ e = SubSeq(i, 1, Len(e))

\* i without its first n bytes
Drop(i, n) == SubSeq(i, n + 1, Len(i))

\* the tails of i that start at a character
Suffixes(i) == { Drop(i, k) : k \in { j \in 0..Len(i) : is_char_boundary(i, j) } }

\* the UTF-8 encoding of a code point
Utf8(cp) ==
    IF cp < 128 THEN <<cp>>
    ELSE IF cp < 2048 THEN <<192 + (cp \div 64), 128 + (cp % 64)>>
    ELSE IF cp < 65536
         THEN <<224 + (cp \div 4096), 128 + ((cp \div 64) % 64), 128 + (cp % 64)>>
    ELSE <<240 + (cp \div 262144), 128 + ((cp \div 4096) % 64),
           128 + ((cp \div 64) % 64), 128 + (cp % 64)>>

\* the character of s that starts at byte offset k
CharAt(s, k) == SubSeq(s, k + 1, k + len_utf8(s[k + 1]))

\* a character an identifier continues with
IsIdentChar(c) == is_alphabetic(CodePoint(c)) \/ c = <<45>>

\* the bytes that first components of pairs consumed on the way to the
\* failure of p on i: a pair whose first component succeeds and whose second
\* fails does not go back over what the first consumed, and a map or a pair
\* around it passes the failure on; a primitive and a one_or_more fail with
\* the input they were given
RECURSIVE ConsumedBeforeFailure(_, _)
ConsumedBeforeFailure(p, i) ==
    CASE p.kind = "pair" ->
           LET r1 == Parse(p.p1, i) IN
           IF IsOk(r1)
           THEN (Len(i) - Len(r1.rest)) + ConsumedBeforeFailure(p.p2, r1.rest)
           ELSE ConsumedBeforeFailure(p.p1, i)
      [] p.kind = "PairParser" ->
           LET r1 == Parse(p.parser_a, i) IN
           IF IsOk(r1)
           THEN (Len(i) - Len(r1.rest)) + ConsumedBeforeFailure(p.parser_b, r1.rest)
           ELSE ConsumedBeforeFailure(p.parser_a, i)
      [] p.kind = "map" -> ConsumedBeforeFailure(p.parser, i)
      [] OTHER -> 0

\* C1 as stated: on failure every parser, composites included, returns
\* exactly the input it was called with.
C1_FailureIsOriginalInput ==
    (Done /\ IsErr(outcome)) => outcome.at = input

\* C1, amended: on failure a parser returns the input it was called with
\* less exactly the text that first components of pairs consumed before the
\* failing component was tried. So the failure input is a tail of the
\* input; it is the input itself for every primitive and every one_or_more,
\* and for a pair or a map unless on the failing path the first component
\* of a pair succeeded having consumed text, and then it is shorter; a pair
\* whose first component succeeded fails with the very failure input its
\* second component returned on the first one's remainder.
C1_FailureInputIsTail ==
    (Done /\ IsErr(outcome)) =>
        /\ outcome.at = Drop(input, ConsumedBeforeFailure(parser, input))
        /\ IsSuffix(outcome.at, input)
        /\ outcome.at = input <=> ConsumedBeforeFailure(parser, input) = 0
        /\ parser.kind \notin {"pair", "PairParser", "map"} => outcome.at = input
        /\ (parser.kind = "pair" /\ IsOk(Parse(parser.p1, input))) =>
              outcome.at = Parse(parser.p2, Parse(parser.p1, input).rest).at
        /\ (parser.kind = "PairParser" /\ IsOk(Parse(parser.parser_a, input))) =>
              outcome.at = Parse(parser.parser_b, Parse(parser.parser_a, input).rest).at

\* a pair inside a pair: both first components consumed text, so the
\* failure input is shorter than the input at which the outer pair tried
\* its second component
C1_Witness ==
    /\ Done /\ parser.kind = "pair" /\ parser.p2.kind = "pair"
    /\ IsErr(outcome)
    /\ IsOk(Parse(parser.p1, input))
    /\ Parse(parser.p1, input).rest # input
    /\ outcome.at # Parse(parser.p1, input).rest
    /\ outcome.at # <<>>

\* C2: the remainder of every successful parse is a tail of the input, so
\* the input is a matched prefix followed by the remainder; the same holds
\* of the position of a repetition loop while it runs.
C2_SuffixInvariant ==
    /\ (Done /\ IsOk(outcome)) =>
          /\ IsSuffix(outcome.rest, input)
          /\ SubSeq(input, 1, Len(input) - Len(outcome.rest)) \o outcome.rest = input
    /\ pc = "loop" => IsSuffix(to_parse, input)

C2_Witness ==
    /\ Done /\ IsOk(outcome) /\ parser.kind = "pair"
    /\ outcome.rest # <<>> /\ outcome.rest # input

\* C3: pair fails with p1's failure input when p1 fails (p2 is not run),
\* fails with the failure input p2 returns on p1's remainder when p2 fails,
\* and otherwise succeeds with p2's remainder and the value (v1, v2).
C3_Pair ==
    (Done /\ parser.kind = "pair") =>
        LET r1 == Parse(parser.p1, input) IN
        IF IsErr(r1) THEN outcome = Err(r1.at)
        ELSE LET r2 == Parse(parser.p2, r1.rest) IN
             IF IsErr(r2) THEN outcome = Err(r2.at)
             ELSE IF IsPanic(r2) THEN IsPanic(outcome)
             ELSE /\ IsOk(outcome)
                  /\ outcome.rest = r2.rest
                  /\ outcome.val = <<r1.val, r2.val>>

\* p2 failed after p1 consumed input: the pair fails past its own input
C3_Witness ==
    /\ Done /\ parser.kind = "pair"
    /\ IsOk(Parse(parser.p1, input))
    /\ IsErr(outcome) /\ outcome.at # input

\* the values of the successive successes of p from i on are seq, and rest
\* is where p then fails
RECURSIVE Chain(_, _, _, _)
Chain(p, i, seq, rest) ==
    LET r == Parse(p, i) IN
    IF seq = <<>> THEN IsErr(r) /\ rest = i
    ELSE IsOk(r) /\ r.val = Head(seq) /\ Chain(p, r.rest, Tail(seq), rest)

\* C4: zero_or_more never fails; it returns the values of the successive
\* successes of p in order, first success first, and the input on which p
\* first failed, which is (i, empty) when p fails on i.
C4_ZeroOrMore ==
    (Done /\ parser.kind = "zero_or_more") =>
        /\ IsOk(outcome)
        /\ Chain(parser.parser, input, outcome.val, outcome.rest)
        /\ IsErr(Parse(parser.parser, input)) => outcome = Ok(input, <<>>)

\* two successes with different values: the value of p on the input comes
\* first, the value of p on the remainder of that comes second
C4_Witness ==
    /\ Done /\ parser.kind = "zero_or_more" /\ IsOk(outcome)
    /\ Len(outcome.val) >= 2
    /\ outcome.val[1] # outcome.val[2]
    /\ outcome.val[1] = Parse(parser.parser, input).val
    /\ outcome.val[2] = Parse(parser.parser, Parse(parser.parser, input).rest).val

\* C5: a successful one_or_more returns what zero_or_more returns, and it
\* is not empty; one_or_more fails exactly when p fails on i, and then
\* zero_or_more returns (i, empty).
C5_OneOrMoreVsZeroOrMore ==
    (Done /\ parser.kind = "one_or_more") =>
        /\ IsErr(outcome) <=> IsErr(Parse(parser.parser, input))
        /\ IsOk(outcome) =>
              /\ zero_or_more(parser.parser, input) = outcome
              /\ outcome.val # <<>>
        /\ IsErr(outcome) => zero_or_more(parser.parser, input) = Ok(input, <<>>)

C5_Witness ==
    /\ Done /\ parser.kind = "one_or_more" /\ IsOk(outcome)
    /\ Len(outcome.val) >= 2 /\ outcome.rest # <<>>

\* C6: literal succeeds exactly when the first len(expected) bytes of the
\* input are expected, returning expected and the input without those
\* bytes; otherwise it returns Failure(input); it never aborts.
C6_Literal ==
    (Done /\ parser.kind \in {"match_literal", "LiteralParser"}) =>
        IF IsPrefix(parser.expected, input)
        THEN outcome = Ok(Drop(input, Len(parser.expected)), parser.expected)
        ELSE outcome = Err(input)

\* a literal of one multi-byte character matched
C6_Witness ==
    /\ Done /\ parser.kind = "match_literal" /\ Len(parser.expected) > 1
    /\ IsOk(outcome) /\ outcome.rest # <<>>

\* C7: identifier succeeds exactly when the input starts with an
\* alphabetic character; the value is the longest prefix made of that
\* character and alphabetic or '-' characters, the remainder the rest of
\* the input; otherwise it returns Failure(input).
C7_Identifier ==
    (Done /\ parser.kind \in {"match_ident", "IdentParser"}) =>
        IF input # <<>> /\ is_alphabetic(CodePoint(CharAt(input, 0)))
        THEN /\ IsOk(outcome)
             /\ outcome.val \o outcome.rest = input
             /\ outcome.val # <<>>
             /\ \A k \in 0..(Len(outcome.val) - 1) :
                    is_char_boundary(outcome.val, k) => IsIdentChar(CharAt(outcome.val, k))
             /\ outcome.rest = <<>> \/ ~IsIdentChar(CharAt(outcome.rest, 0))
        ELSE outcome = Err(input)

\* an identifier of two-byte letters, stopped by a character that is not
\* part of it
C7_Witness ==
    /\ Done /\ parser.kind = "match_ident" /\ IsOk(outcome)
    /\ Len(outcome.val) >= 4 /\ outcome.rest # <<>>

\* C8: char-equals succeeds exactly when the input starts with the code
\* point c, returning unit and the input without all the bytes of that code
\* point; otherwise it returns Failure(input).
C8_CharEquals ==
    (Done /\ parser.kind = "match_letter") =>
        IF IsPrefix(Utf8(parser.c), input)
        THEN outcome = Ok(Drop(input, Len(Utf8(parser.c))), Unit)
        ELSE outcome = Err(input)

C8_Witness ==
    /\ Done /\ parser.kind = "match_letter" /\ parser.c > 65535
    /\ IsOk(outcome) /\ outcome.rest # <<>>

\* C9: map fails exactly when p fails, with p's failure input and without
\* invoking f (a panicking f included); when p succeeds with (rest, v) it
\* invokes f and succeeds with (rest, f(v)).
C9_Map ==
    (Done /\ parser.kind = "map") =>
        LET r == Parse(parser.parser, input) IN
        IF IsErr(r) THEN outcome = Err(r.at)
        ELSE IF parser.map_fn = Abort THEN IsPanic(outcome)
        ELSE /\ IsOk(outcome)
             /\ outcome.rest = r.rest
             /\ outcome.val = apply_fn(parser.map_fn, r.val)

C9_Witness ==
    /\ Done /\ parser.kind = "map" /\ parser.map_fn = "Ident"
    /\ IsOk(outcome) /\ outcome.rest # <<>> /\ outcome.rest # input

\* every success of p on a tail of i leaves a strictly shorter remainder
ProgressOn(p, i) ==
    \A s \in Suffixes(i) : LET r == Parse(p, s) IN IsOk(r) => Len(r.rest) < Len(s)

\* p succeeds on s without consuming any of it
ZeroWidthAt(p, s) == LET r == Parse(p, s) IN IsOk(r) /\ r.rest = s

\* C10: a repetition of a parser that makes progress returns, after at
\* most len(i) successes; where p succeeds without consuming input the loop
\* comes back to the same position with the loop still running, and a
\* repetition of such a parser never returns.
C10_Termination ==
    /\ [](ProgressOn(parser.parser, input) => Len(result) <= Len(input))
    /\ (pc = "ready" /\ ProgressOn(parser.parser, input)) ~> Done
    /\ []((\E s \in Suffixes(input) : ZeroWidthAt(parser.parser, s)) => ~Done)
    /\ [][(pc = "loop" /\ ZeroWidthAt(parser.parser, to_parse)) =>
             (pc' = "loop" /\ to_parse' = to_parse /\ Len(result') = Len(result) + 1)]_vars

\* a loop that returned after as many successes as the input has bytes
\* (the bound of the claim is met)
C10_Witness ==
    /\ Done /\ parser.kind \in RepKinds /\ IsOk(outcome)
    /\ input # <<>> /\ Len(outcome.val) = Len(input)

====
